---- MODULE Spec2Model ----
(***************************************************************************)
(* Model of alertbot.py: the alert classification and rendering pipeline   *)
(* (get_alert_type, get_alert_messages and the renderers) and the AlertBot *)
(* plugin (webhook handler, delivery loop, operator commands).             *)
(*                                                                         *)
(* JSON values are records [t, s, n, items]:                               *)
(*   t = "obj"   items = sequence of [k |-> key, v |-> value], keys unique *)
(*   t = "list"  items = sequence of [k |-> "", v |-> value]               *)
(*   t = "str"   s = the text                                              *)
(*   t = "int"   n = the value                                             *)
(*   t = "bool"  n = 1 for true, 0 for false (a Python bool is an int)     *)
(*   t = "float" s = the literal of a non-integer number, e.g. "1.5"       *)
(*   t = "null"                                                            *)
(* A Python call yields a record [exc, val]: exc = "none" and the value,   *)
(* or the name of the exception that it raised.                            *)
(* The emoji of the message texts are written (fire), (green_heart) and    *)
(* (party), and a backquote is written ^.                                  *)
(***************************************************************************)
EXTENDS Integers, Sequences, FiniteSets, TLC

VARIABLES
    raw_mode,    \* AlertBot.raw_mode
    requests,    \* the webhook requests, by request number
    toggles,     \* history: how many times the raw command has run
    last_reply,  \* the reply of the last operator command
    payload,     \* pure functions: the decoded JSON argument
    called,      \* pure functions: the function that was applied last
    raw_arg,     \* pure functions: the raw_mode argument of that call
    result       \* pure functions: what that call returned or raised

vars == <<raw_mode, requests, toggles, last_reply, payload, called, raw_arg, result>>

(***************************************************************************)
(* JSON values                                                             *)
(***************************************************************************)
JStr(s) == [t |-> "str", s |-> s, n |-> 0, items |-> <<>>]
JInt(n) == [t |-> "int", s |-> "", n |-> n, items |-> <<>>]
JBool(b) == [t |-> "bool", s |-> "", n |-> IF b THEN 1 ELSE 0, items |-> <<>>]
JFloat(lit) == [t |-> "float", s |-> lit, n |-> 0, items |-> <<>>]
JNull == [t |-> "null", s |-> "", n |-> 0, items |-> <<>>]
KV(k, v) == [k |-> k, v |-> v]
JObj(kvs) == [t |-> "obj", s |-> "", n |-> 0, items |-> kvs]
JList(vs) == [t |-> "list", s |-> "", n |-> 0, items |-> [i \in 1..Len(vs) |-> KV("", vs[i])]]

(***************************************************************************)
(* Python results                                                          *)
(***************************************************************************)
Ok(v) == [exc |-> "none", val |-> v]
Raise(e) == [exc |-> e, val |-> <<>>]

IsOk(r) == r.exc = "none"
IsPass(r) == IsOk(r) /\ r.val = "pass"

HasKey(d, key) == \E i \in 1..Len(d.items) : d.items[i].k = key
GetKey(d, key) == d.items[CHOOSE i \in 1..Len(d.items) : d.items[i].k = key].v

\* s[i:i] one-character strings and substring search of Python's str
StrContains(s, sub) ==
    \E i \in 1..(Len(s) - Len(sub) + 1) : SubSeq(s, i, i + Len(sub) - 1) = sub

\* str.strip(chars): drop the leading and trailing characters that are in ws
RECURSIVE LStrip(_, _)
LStrip(s, ws) ==
    IF Len(s) > 0 /\ SubSeq(s, 1, 1) \in ws THEN LStrip(SubSeq(s, 2, Len(s)), ws) ELSE s
RECURSIVE RStrip(_, _)
RStrip(s, ws) ==
    IF Len(s) > 0 /\ SubSeq(s, Len(s), Len(s)) \in ws
    THEN RStrip(SubSeq(s, 1, Len(s) - 1), ws) ELSE s
Whitespace == {" ", "\n", "\t", "\r"}
Strip(s) == RStrip(LStrip(s, Whitespace), Whitespace)
StripNewlines(s) == RStrip(LStrip(s, {"\n"}), {"\n"})

\* v[key] for a string key
Subscript(v, key) ==
    IF v.t = "obj"
    THEN IF HasKey(v, key) THEN Ok(GetKey(v, key)) ELSE Raise("KeyError")
    ELSE Raise("TypeError")

\* v[0]
Index0(v) ==
    CASE v.t = "list" -> IF Len(v.items) > 0 THEN Ok(v.items[1].v) ELSE Raise("IndexError")
      [] v.t = "str" -> IF Len(v.s) > 0 THEN Ok(JStr(SubSeq(v.s, 1, 1))) ELSE Raise("IndexError")
      [] v.t = "obj" -> Raise("KeyError")
      [] OTHER -> Raise("TypeError")

\* r[key] and r[0] where r is the result of the subscript to the left
Sub(r, key) == IF r.exc = "none" THEN Subscript(r.val, key) ELSE r
Idx0(r) == IF r.exc = "none" THEN Index0(r.val) ELSE r

\* key in v
Contains(v, key) ==
    CASE v.t = "obj" -> Ok(HasKey(v, key))
      [] v.t = "list" -> Ok(\E i \in 1..Len(v.items) : v.items[i].v = JStr(key))
      [] v.t = "str" -> Ok(StrContains(v.s, key))
      [] OTHER -> Raise("TypeError")

\* bool(v)
Truthy(v) ==
    CASE v.t = "str" -> v.s # ""
      [] v.t \in {"int", "bool"} -> v.n # 0
      [] v.t = "float" -> v.s \notin {"0.0", "-0.0"}
      [] v.t = "null" -> FALSE
      [] OTHER -> Len(v.items) > 0

\* v == k for an integer literal k
EqInt(v, k) ==
    \/ v.t \in {"int", "bool"} /\ v.n = k
    \/ v.t = "float" /\ k = 0 /\ v.s \in {"0.0", "-0.0"}
    \/ v.t = "float" /\ k = 1 /\ v.s = "1.0"

\* v == s for a string literal s
EqStr(v, s) == v.t = "str" /\ v.s = s

(***************************************************************************)
(* get_alert_type                                                          *)
(***************************************************************************)
HeartbeatStatus(data) == Sub(Subscript(data, "heartbeat"), "status")
FirstLabel(data, label) == Sub(Sub(Idx0(Subscript(data, "alerts")), "labels"), label)

\* one of the two try blocks on alerts[0].labels: "pass" when it falls through
LabelProbe(data, label, firing, resolved) ==
    LET l == FirstLabel(data, label)
        st == Subscript(data, "status")
    IN  CASE l.exc = "KeyError" -> Ok("pass")
          [] l.exc # "none" -> Raise(l.exc)
          [] ~Truthy(l.val) -> Ok("pass")
          [] st.exc = "KeyError" -> Ok("pass")
          [] st.exc # "none" -> Raise(st.exc)
          [] OTHER -> Ok(IF EqStr(st.val, "firing") THEN firing ELSE resolved)

HeartbeatProbe(data) ==
    LET hs == HeartbeatStatus(data)
    IN  CASE hs.exc = "KeyError" -> Ok("pass")
          [] hs.exc # "none" -> Raise(hs.exc)
          [] EqInt(hs.val, 0) -> Ok("uptime-kuma-alert")
          [] EqInt(hs.val, 1) -> Ok("uptime-kuma-resolved")
          [] OTHER -> Ok("pass")

SlackProbe(data) ==
    LET hasText == Contains(data, "text")
        hasAtt == Contains(data, "attachments")
    IN  CASE hasText.exc # "none" -> Raise(hasText.exc)
          [] ~hasText.val -> Ok("pass")
          [] hasAtt.exc # "none" -> Raise(hasAtt.exc)
          [] OTHER -> Ok(IF hasAtt.val THEN "slack-webhook" ELSE "pass")

get_alert_type(data) ==
    LET slack == SlackProbe(data)
        kuma == HeartbeatProbe(data)
        grafana == LabelProbe(data, "grafana_folder", "grafana-alert", "grafana-resolved")
        prometheus == LabelProbe(data, "job", "prometheus-alert", "prometheus-resolved")
    IN  CASE ~IsPass(slack) -> slack
          [] ~IsPass(kuma) -> kuma
          [] ~IsPass(grafana) -> grafana
          [] ~IsPass(prometheus) -> prometheus
          [] OTHER -> Ok("not-found")

(***************************************************************************)
(* str() and repr() of a decoded JSON value                                *)
(***************************************************************************)
RECURSIVE PyRepr(_), ReprItems(_, _, _)
PyRepr(v) ==
    CASE v.t = "str" -> "'" \o v.s \o "'"
      [] v.t = "int" -> ToString(v.n)
      [] v.t = "bool" -> IF v.n = 1 THEN "True" ELSE "False"
      [] v.t = "float" -> v.s
      [] v.t = "null" -> "None"
      [] v.t = "list" -> "[" \o ReprItems(v, 1, FALSE) \o "]"
      [] v.t = "obj" -> "{" \o ReprItems(v, 1, TRUE) \o "}"
ReprItems(v, i, keyed) ==
    IF i > Len(v.items) THEN ""
    ELSE (IF i > 1 THEN ", " ELSE "")
         \o (IF keyed THEN "'" \o v.items[i].k \o "': " ELSE "")
         \o PyRepr(v.items[i].v)
         \o ReprItems(v, i + 1, keyed)

PyStr(v) == IF v.t = "str" THEN v.s ELSE PyRepr(v)

\* what a for loop over v visits
IterItems(v) ==
    CASE v.t = "list" -> Ok([i \in 1..Len(v.items) |-> v.items[i].v])
      [] v.t = "obj" -> Ok([i \in 1..Len(v.items) |-> JStr(v.items[i].k)])
      [] v.t = "str" -> Ok([i \in 1..Len(v.s) |-> JStr(SubSeq(v.s, i, i))])
      [] OTHER -> Raise("TypeError")

(***************************************************************************)
(* dict_to_markdown                                                        *)
(***************************************************************************)
IsStrOrInt(v) == v.t \in {"str", "int", "bool"}

\* alert_data[key_or_dict] inside the try: "TypeError" is the caught case
DumpLookup(d, item) ==
    CASE d.t = "obj" -> Subscript(d, item.s)
      [] d.t = "list" /\ item.t \in {"int", "bool"} ->
            IF item.n >= Len(d.items) \/ item.n < -Len(d.items) THEN Raise("IndexError")
            ELSE Ok(d.items[(IF item.n < 0 THEN item.n + Len(d.items) ELSE item.n) + 1].v)
      [] OTHER -> Raise("TypeError")

RECURSIVE dict_to_markdown(_), DumpLoop(_, _, _, _)
dict_to_markdown(alert_data) ==
    LET it == IterItems(alert_data)
    IN  CASE ~IsOk(it) -> it
          \* a character of a string is a string of one character: the call on it
          \* makes the same call again, until the interpreter's recursion limit
          [] alert_data.t = "str" /\ Len(it.val) > 0 -> Raise("RecursionError")
          [] OTHER -> DumpLoop(alert_data, it.val, 1, "")
DumpLoop(alert_data, keys, i, md) ==
    IF i > Len(keys) THEN Ok(md)
    ELSE LET key_or_dict == keys[i]
             looked == DumpLookup(alert_data, key_or_dict)
             inner == dict_to_markdown(IF IsOk(looked) THEN looked.val ELSE key_or_dict)
         IN  CASE looked.exc \notin {"none", "TypeError"} -> looked
               [] IsOk(looked) /\ IsStrOrInt(looked.val) ->
                     DumpLoop(alert_data, keys, i + 1,
                              md \o "* " \o PyStr(key_or_dict) \o ": " \o PyStr(looked.val) \o "\n")
               [] ~IsOk(inner) -> inner
               [] OTHER -> DumpLoop(alert_data, keys, i + 1, md \o "  " \o inner.val)

(***************************************************************************)
(* grafana_alert_to_markdown                                               *)
(***************************************************************************)
\* the timestamps dateutil.parser.isoparse accepts, among those of the model
IsoTimes == {"2024-01-01T00:00:00Z", "2024-01-01T00:05:00Z"}
isoparse(r) ==
    CASE ~IsOk(r) -> r
      [] r.val.t # "str" -> Raise("TypeError")
      [] r.val.s \notin IsoTimes -> Raise("ValueError")
      [] OTHER -> Ok(r.val.s)

\* name = alert["labels"]["alertname"] and its " - name" or " - rulename" suffix
GrafanaName(alert) ==
    LET alertname == Sub(Subscript(alert, "labels"), "alertname")
        labels == Subscript(alert, "labels").val
    IN  CASE ~IsOk(alertname) -> alertname
          [] HasKey(labels, "name") ->
                Ok(PyStr(alertname.val) \o " - " \o PyStr(GetKey(labels, "name")))
          [] HasKey(labels, "rulename") ->
                Ok(PyStr(alertname.val) \o " - " \o PyStr(GetKey(labels, "rulename")))
          [] OTHER -> Ok(PyStr(alertname.val))

\* The body of the loop for one alert. message is the loop's local variable as the
\* previous iterations left it: [bound |-> FALSE] before its first assignment.
GrafanaStep(alert, message) ==
    LET name == GrafanaName(alert)
        status == Subscript(alert, "status")
        silence == Subscript(alert, "silenceURL")
        end_at == isoparse(Subscript(alert, "endsAt"))
        start_at == isoparse(Subscript(alert, "startsAt"))
    IN  CASE ~IsOk(name) -> name
          [] ~IsOk(status) -> status
          [] EqStr(status.val, "firing") /\ ~IsOk(silence) -> silence
          [] EqStr(status.val, "firing") ->
                Ok([bound |-> TRUE,
                    text |-> "**Firing (fire)**: " \o name.val
                             \o " ([silence](" \o PyStr(silence.val) \o "))"])
          [] EqStr(status.val, "resolved") /\ ~IsOk(end_at) -> end_at
          [] EqStr(status.val, "resolved") /\ ~IsOk(start_at) -> start_at
          [] EqStr(status.val, "resolved") ->
                Ok([bound |-> TRUE, text |-> "**Resolved (party)**: " \o name.val])
          [] ~message.bound -> Raise("UnboundLocalError")
          [] OTHER -> Ok(message)

RECURSIVE GrafanaLoop(_, _, _, _)
GrafanaLoop(alerts, i, message, messages) ==
    IF i > Len(alerts) THEN Ok(messages)
    ELSE LET step == GrafanaStep(alerts[i], message)
         IN  IF ~IsOk(step) THEN step
             ELSE GrafanaLoop(alerts, i + 1, step.val, Append(messages, step.val.text))

grafana_alert_to_markdown(alert_data) ==
    LET alerts == Subscript(alert_data, "alerts")
        it == IF IsOk(alerts) THEN IterItems(alerts.val) ELSE alerts
    IN  IF ~IsOk(it) THEN it
        ELSE GrafanaLoop(it.val, 1, [bound |-> FALSE, text |-> ""], <<>>)

(***************************************************************************)
(* prometheus_alert_to_markdown                                            *)
(***************************************************************************)
known_labels == <<"alertname", "instance", "job">>
Capitalize(label_name) ==
    CASE label_name = "alertname" -> "Alertname"
      [] label_name = "instance" -> "Instance"
      [] label_name = "job" -> "Job"

\* hasattr(alert['annotations'], 'description'): a decoded JSON value (dict, list, str,
\* int, float, bool, None) has no attribute of that name, whatever keys a dict holds
HasAttrDescription(annotations) == FALSE

PrometheusTitle(alert) ==
    LET annotations == Subscript(alert, "annotations")
    IN  CASE ~IsOk(annotations) -> annotations
          [] HasAttrDescription(annotations.val) -> Subscript(annotations.val, "description")
          [] OTHER -> Subscript(annotations.val, "summary")

RECURSIVE PrometheusLabels(_, _)
PrometheusLabels(alert, j) ==
    IF j > Len(known_labels) THEN ""
    ELSE LET label == Sub(Subscript(alert, "labels"), known_labels[j])
         IN  (IF IsOk(label)
              THEN "\n* **" \o Capitalize(known_labels[j]) \o "**: " \o PyStr(label.val)
              ELSE "")
             \o PrometheusLabels(alert, j + 1)

PrometheusStep(alert) ==
    LET title == PrometheusTitle(alert)
        status == Subscript(alert, "status")
    IN  CASE ~IsOk(title) -> title
          [] ~IsOk(status) -> status
          [] OTHER ->
                Ok("**" \o PyStr(status.val) \o "** "
                   \o (IF EqStr(status.val, "resolved") THEN "(green_heart)" ELSE "(fire)")
                   \o ": " \o PyStr(title.val) \o PrometheusLabels(alert, 1))

RECURSIVE PrometheusLoop(_, _, _)
PrometheusLoop(alerts, i, messages) ==
    IF i > Len(alerts) THEN Ok(messages)
    ELSE LET step == PrometheusStep(alerts[i])
         IN  IF ~IsOk(step) THEN step
             ELSE PrometheusLoop(alerts, i + 1, Append(messages, step.val))

prometheus_alert_to_markdown(alert_data) ==
    LET alerts == Subscript(alert_data, "alerts")
        it == IF IsOk(alerts) THEN IterItems(alerts.val) ELSE alerts
    IN  IF ~IsOk(it) THEN it ELSE PrometheusLoop(it.val, 1, <<>>)

(***************************************************************************)
(* uptime_kuma_alert_to_markdown, uptime_kuma_resolved_to_markdown         *)
(***************************************************************************)
RECURSIVE Join(_, _)
Join(parts, sep) ==
    CASE Len(parts) = 0 -> ""
      [] Len(parts) = 1 -> parts[1]
      [] OTHER -> parts[1] \o sep \o Join(Tail(parts), sep)

\* [tag["name"] for tag in tags]
RECURSIVE TagNames(_, _, _)
TagNames(tags, i, names) ==
    IF i > Len(tags) THEN Ok(names)
    ELSE LET name == Subscript(tags[i], "name")
         IN  IF ~IsOk(name) THEN name ELSE TagNames(tags, i + 1, Append(names, name.val))

\* ", ".join(...) over alert_data["monitor"]["tags"]: str.join takes strings only
tags_readable(alert_data) ==
    LET tags == Sub(Subscript(alert_data, "monitor"), "tags")
        it == IF IsOk(tags) THEN IterItems(tags.val) ELSE tags
        names == IF IsOk(it) THEN TagNames(it.val, 1, <<>>) ELSE it
    IN  CASE ~IsOk(names) -> names
          [] \E i \in 1..Len(names.val) : names.val[i].t # "str" -> Raise("TypeError")
          [] OTHER -> Ok(Join([i \in 1..Len(names.val) |-> names.val[i].s], ", "))

uptime_kuma_alert_to_markdown(alert_data) ==
    LET tags == tags_readable(alert_data)
        url == Sub(Subscript(alert_data, "monitor"), "url")
        msg == Sub(Subscript(alert_data, "heartbeat"), "msg")
        time == Sub(Subscript(alert_data, "heartbeat"), "time")
    IN  CASE ~IsOk(tags) -> tags
          [] ~IsOk(url) -> url
          [] ~IsOk(msg) -> msg
          [] ~IsOk(time) -> time
          [] OTHER ->
                Ok(<< "**Firing (fire)**: Monitor down: " \o PyStr(url.val)
                      \o "\n\n* **Error:** " \o PyStr(msg.val)
                      \o "\n* **Started at:** " \o PyStr(time.val)
                      \o "\n* **Tags:** " \o tags.val
                      \o "\n* **Source:** \"Uptime Kuma\"\n                    " >>)

uptime_kuma_resolved_to_markdown(alert_data) ==
    LET tags == tags_readable(alert_data)
        url == Sub(Subscript(alert_data, "monitor"), "url")
        msg == Sub(Subscript(alert_data, "heartbeat"), "msg")
        time == Sub(Subscript(alert_data, "heartbeat"), "time")
        duration == Sub(Subscript(alert_data, "heartbeat"), "duration")
    IN  CASE ~IsOk(tags) -> tags
          [] ~IsOk(url) -> url
          [] ~IsOk(msg) -> msg
          [] ~IsOk(time) -> time
          [] ~IsOk(duration) -> duration
          [] OTHER ->
                Ok(<< "**Resolved (green_heart)**: " \o PyStr(url.val)
                      \o "\n\n* **Status:** " \o PyStr(msg.val)
                      \o "\n* **Started at:** " \o PyStr(time.val)
                      \o "\n* Duration until resolved " \o PyStr(duration.val) \o "s"
                      \o "\n* **Tags:** " \o tags.val
                      \o "\n* **Source:** \"Uptime Kuma\"\n    " >>)

(***************************************************************************)
(* convert_slack_webhook_to_markdown                                       *)
(* The loops thread md = [parts, titles, joinable]: markdown_parts,        *)
(* attachment_titles, and whether every part is a string (str.join raises  *)
(* TypeError on any other item).                                           *)
(***************************************************************************)
AddPart(md, text) == [md EXCEPT !.parts = Append(@, text)]

\* if "title" in attach: ...
SlackTitle(attach, r) ==
    LET has == Contains(attach, "title")
        title == Subscript(attach, "title")
        link == Subscript(attach, "title_link")
        title_md == IF IsOk(link)
                    THEN "[" \o PyStr(title.val) \o "](" \o PyStr(link.val) \o ")"
                    ELSE "## " \o PyStr(title.val)
    IN  CASE ~IsOk(r) -> r
          [] ~IsOk(has) -> has
          [] ~has.val -> r
          [] ~IsOk(title) -> title
          [] OTHER -> Ok([AddPart(r.val, "> " \o title_md)
                            EXCEPT !.titles = Append(@, title.val)])

\* if key in attach and attach[key] is not None: ...
SlackExtra(attach, key, r) ==
    LET has == Contains(attach, key)
        value == Subscript(attach, key)
        extra_md == IF key = "text" THEN PyStr(value.val)
                    ELSE "![Image](" \o PyStr(value.val) \o ")"
    IN  CASE ~IsOk(r) -> r
          [] ~IsOk(has) -> has
          [] ~has.val -> r
          [] ~IsOk(value) -> value
          [] value.val.t = "null" -> r
          [] OTHER -> Ok(AddPart(r.val, "> " \o extra_md))

RECURSIVE SlackFieldLoop(_, _, _)
SlackFieldLoop(fields, i, md) ==
    IF i > Len(fields) THEN Ok(md)
    ELSE LET title == Subscript(fields[i], "title")
             value == Subscript(fields[i], "value")
         IN  CASE ~IsOk(title) -> title
               [] ~IsOk(value) -> value
               [] OTHER ->
                     SlackFieldLoop(fields, i + 1,
                         AddPart(md, "> - **" \o PyStr(title.val) \o "** : " \o PyStr(value.val)))

\* if 'fields' in attach: ...
SlackFields(attach, r) ==
    LET has == Contains(attach, "fields")
        fields == Subscript(attach, "fields")
        it == IF IsOk(fields) THEN IterItems(fields.val) ELSE fields
    IN  CASE ~IsOk(r) -> r
          [] ~IsOk(has) -> has
          [] ~has.val -> r
          [] ~IsOk(it) -> it
          [] OTHER -> SlackFieldLoop(it.val, 1, r.val)

RECURSIVE SlackAttachLoop(_, _, _)
SlackAttachLoop(attachments, i, md) ==
    IF i > Len(attachments) THEN Ok(md)
    ELSE LET attach == attachments[i]
             done == SlackFields(attach,
                        SlackExtra(attach, "image_url",
                            SlackExtra(attach, "text", SlackTitle(attach, Ok(md)))))
         IN  IF ~IsOk(done) THEN done ELSE SlackAttachLoop(attachments, i + 1, done.val)

\* a == b of two decoded JSON values (True == 1 and False == 0)
PyEq(a, b) ==
    IF a.t \in {"int", "bool"} /\ b.t \in {"int", "bool"} THEN a.n = b.n ELSE a = b

SlackSectionStep(section, md) ==
    LET hasTitle == Contains(section, "activityTitle")
        title == Subscript(section, "activityTitle")
        hasSub == Contains(section, "activitySubtitle")
        subtitle == Subscript(section, "activitySubtitle")
        seen == \E j \in 1..Len(md.titles) : PyEq(md.titles[j], title.val)
        md1 == IF hasTitle.val /\ ~seen THEN AddPart(md, "## " \o PyStr(title.val)) ELSE md
    IN  CASE ~IsOk(hasTitle) -> hasTitle
          [] hasTitle.val /\ ~IsOk(title) -> title
          [] ~IsOk(hasSub) -> hasSub
          [] ~hasSub.val -> Ok(md1)
          [] ~IsOk(subtitle) -> subtitle
          [] subtitle.val.t # "str" -> Ok([AddPart(md1, "") EXCEPT !.joinable = FALSE])
          [] OTHER -> Ok(AddPart(md1, subtitle.val.s))

RECURSIVE SlackSectionLoop(_, _, _)
SlackSectionLoop(sections, i, md) ==
    IF i > Len(sections) THEN Ok(md)
    ELSE LET step == SlackSectionStep(sections[i], md)
         IN  IF ~IsOk(step) THEN step ELSE SlackSectionLoop(sections, i + 1, step.val)

convert_slack_webhook_to_markdown(data) ==
    LET md0 == [parts |-> <<>>, titles |-> <<>>, joinable |-> TRUE]
        md1 == IF HasKey(data, "text") THEN AddPart(md0, PyStr(GetKey(data, "text"))) ELSE md0
        attachments == IterItems(GetKey(data, "attachments"))
        md2 == CASE ~HasKey(data, "attachments") -> Ok(md1)
                 [] ~IsOk(attachments) -> attachments
                 [] OTHER -> SlackAttachLoop(attachments.val, 1, md1)
        sections == IterItems(GetKey(data, "sections"))
        md3 == CASE ~IsOk(md2) -> md2
                 [] ~HasKey(data, "sections") -> md2
                 [] ~IsOk(sections) -> sections
                 [] OTHER -> SlackSectionLoop(sections.val, 1, AddPart(md2.val, ""))
    IN  CASE data.t # "obj" -> Ok(<<"Input data must be a dictionary">>)
          [] ~IsOk(md3) -> md3
          [] ~md3.val.joinable -> Raise("TypeError")
          [] OTHER -> Ok(<<Join(md3.val.parts, "\n")>>)

(***************************************************************************)
(* get_alert_messages                                                      *)
(***************************************************************************)
Fenced(alert_data) == "**Data received**\n^^^\n" \o Strip(StripNewlines(PyStr(alert_data))) \o "\n^^^"

\* the renderer that the if/elif chain selects
Render(alert_type, alert_data) ==
    CASE alert_type = "slack-webhook" -> convert_slack_webhook_to_markdown(alert_data)
      [] alert_type \in {"grafana-alert", "grafana-resolved"} ->
            grafana_alert_to_markdown(alert_data)
      [] alert_type \in {"prometheus-alert", "prometheus-resolved"} ->
            prometheus_alert_to_markdown(alert_data)
      [] alert_type = "uptime-kuma-alert" -> uptime_kuma_alert_to_markdown(alert_data)
      [] alert_type = "uptime-kuma-resolved" -> uptime_kuma_resolved_to_markdown(alert_data)

\* e.with_traceback() with no argument: the method takes exactly one
with_traceback == Raise("TypeError")

\* the except KeyError branch: the f-string is evaluated before the assignment
KeyErrorHandler(alert_data, alert_type) ==
    IF ~IsOk(with_traceback) THEN with_traceback
    ELSE Ok(<< Fenced(alert_data) \o "\nThe data was detected as " \o alert_type
               \o " but was not in an expected format. If you want to help the development of this bot, file a bug report [here](https://github.com/moan0s/alertbot/issues)\n"
               \o with_traceback.val >>)

get_alert_messages(alert_data, raw) ==
    LET alert_type == get_alert_type(alert_data)
        dump == dict_to_markdown(alert_data)
        messages == Render(alert_type.val, alert_data)
    IN  CASE ~IsOk(alert_type) -> alert_type
          [] raw -> Ok(<<Fenced(alert_data)>>)
          [] alert_type.val = "not-found" ->
                IF IsOk(dump) THEN Ok(<<"**Data received**\n " \o dump.val>>) ELSE dump
          [] messages.exc = "KeyError" -> KeyErrorHandler(alert_data, alert_type.val)
          [] OTHER -> messages

(***************************************************************************)
(* The decoded JSON payloads of the model                                  *)
(***************************************************************************)
MaxAlerts == 2     \* entries of an alerts array
MaxListLen == 2    \* entries of an array in an unclassified payload

\* an object from optional members: a member whose value is "absent" is left out
Absent == [t |-> "absent", s |-> "", n |-> 0, items |-> <<>>]
RECURSIVE Members(_)
Members(kvs) ==
    IF Len(kvs) = 0 THEN <<>>
    ELSE IF Head(kvs).v = Absent THEN Members(Tail(kvs))
         ELSE <<Head(kvs)>> \o Members(Tail(kvs))
Obj(kvs) == JObj(Members(kvs))

SeqsUpTo(S, n) == UNION {[1..m -> S] : m \in 0..n}
SeqsFrom1(S, n) == UNION {[1..m -> S] : m \in 1..n}

\* shapes that probe the detector: every member may be missing or of the wrong type
ProbeLabels ==
    { Obj(<<KV("grafana_folder", g), KV("job", j)>>) :
        g \in {Absent, JStr("folder"), JStr("")}, j \in {Absent, JStr("node")} }
ProbeAlerts ==
    {JList(<<>>), JStr("alerts"), JStr(""), JObj(<<>>), JNull}
    \cup { JList(<<Obj(<<KV("labels", l)>>)>>) : l \in ProbeLabels \cup {Absent, JStr("labels")} }
ProbeHeartbeats ==
    {JObj(<<>>), JStr("up"), JNull}
    \cup { JObj(<<KV("status", st)>>) : st \in {JInt(0), JInt(1), JInt(2), JBool(FALSE)} }
ProbePayloads ==
    { Obj(<<KV("text", t), KV("attachments", a), KV("heartbeat", h), KV("alerts", al),
            KV("status", st)>>) :
        t \in {Absent, JStr("hello")}, a \in {Absent, JList(<<>>)},
        h \in ProbeHeartbeats \cup {Absent}, al \in ProbeAlerts \cup {Absent},
        st \in {Absent, JStr("firing"), JStr("resolved")} }
TopLevelPayloads ==
    { JList(<<>>), JList(<<JStr("text"), JStr("attachments")>>), JStr("text attachments"),
      JStr(" text attachments\n"), JStr("x"), JInt(5), JFloat("1.5"), JBool(TRUE), JNull }

\* Grafana alerts: the i-th alert of an array is named A<i>
GrafanaAlertShapes ==
    { [status |-> "firing", silence |-> TRUE, times |-> TRUE],
      [status |-> "firing", silence |-> FALSE, times |-> TRUE],
      [status |-> "resolved", silence |-> FALSE, times |-> TRUE],
      [status |-> "resolved", silence |-> FALSE, times |-> FALSE],
      [status |-> "pending", silence |-> FALSE, times |-> TRUE] }
GrafanaAlert(i, sh) ==
    Obj(<< KV("status", JStr(sh.status)),
           KV("labels", JObj(<<KV("alertname", JStr("A" \o ToString(i))),
                               KV("grafana_folder", JStr("folder"))>>)),
           KV("silenceURL", IF sh.silence THEN JStr("http://g/s" \o ToString(i)) ELSE Absent),
           KV("startsAt", IF sh.times THEN JStr("2024-01-01T00:00:00Z") ELSE Absent),
           KV("endsAt", IF sh.times THEN JStr("2024-01-01T00:05:00Z") ELSE Absent) >>)
GrafanaPayloads ==
    { JObj(<< KV("status", JStr(st)),
              KV("alerts", JList([i \in 1..Len(shs) |-> GrafanaAlert(i, shs[i])])) >>) :
        st \in {"firing", "resolved"}, shs \in SeqsFrom1(GrafanaAlertShapes, MaxAlerts) }

\* Prometheus alerts: the i-th alert's annotations are "summary <i>", "description <i>",
\* and the first alert alone has an instance label
PrometheusAlertShapes ==
    [status : {"firing", "resolved"}, summary : BOOLEAN, description : BOOLEAN]
PrometheusAlert(i, sh) ==
    Obj(<< KV("status", JStr(sh.status)),
           KV("labels", Obj(<<KV("alertname", JStr("P" \o ToString(i))),
                              KV("instance", IF i = 1 THEN JStr("host") ELSE Absent),
                              KV("job", JStr("node"))>>)),
           KV("annotations",
              Obj(<<KV("summary",
                       IF sh.summary THEN JStr("summary " \o ToString(i)) ELSE Absent),
                    KV("description",
                       IF sh.description THEN JStr("description " \o ToString(i))
                       ELSE Absent)>>)) >>)
PrometheusPayloads ==
    { JObj(<< KV("status", JStr(st)),
              KV("alerts", JList([i \in 1..Len(shs) |-> PrometheusAlert(i, shs[i])])) >>) :
        st \in {"firing", "resolved"}, shs \in SeqsFrom1(PrometheusAlertShapes, MaxAlerts) }

\* Uptime Kuma payloads, complete and lacking a member
KumaPayloads ==
    { Obj(<< KV("heartbeat", Obj(<<KV("status", JInt(st)), KV("msg", JStr("down")),
                                   KV("time", JStr("t0")), KV("duration", d)>>)),
             KV("monitor", Obj(<<KV("url", JStr("http://x")), KV("tags", tags)>>)) >>) :
        st \in {0, 1}, d \in {Absent, JInt(42)},
        tags \in {Absent, JList(<<>>), JList(<<JObj(<<KV("name", JStr("prod"))>>)>>),
                  JList(<<JObj(<<KV("name", JStr("prod"))>>), JObj(<<KV("name", JInt(1))>>)>>)} }

\* Slack-shaped payloads
SlackAttachments ==
    { JObj(<<KV("title", JStr("T")), KV("text", JStr("body"))>>),
      JObj(<<KV("title", JStr("T")), KV("title_link", JStr("http://l")),
             KV("image_url", JNull),
             KV("fields", JList(<<JObj(<<KV("title", JStr("f")), KV("value", JInt(1))>>)>>))>>),
      JObj(<<KV("fields", JList(<<JObj(<<KV("title", JStr("f"))>>)>>))>>),
      JObj(<<KV("image_url", JStr("http://i"))>>),
      JStr("title"), JInt(1) }
SlackPayloads ==
    { Obj(<< KV("text", JStr("hello")), KV("attachments", JList(as)), KV("sections", se) >>) :
        as \in SeqsUpTo(SlackAttachments, 1),
        se \in {Absent,
                JList(<<JObj(<<KV("activityTitle", JStr("T")),
                               KV("activitySubtitle", JStr("sub"))>>)>>),
                JList(<<JObj(<<KV("activityTitle", JStr("U")),
                               KV("activitySubtitle", JInt(3))>>)>>)} }

\* payloads of no known format: trees of every kind of JSON value
Scalars ==
    {JStr("s"), JStr(""), JInt(0), JInt(5), JBool(TRUE), JNull, JFloat("1.5")}
Level1 ==
    { JList(vs) : vs \in SeqsUpTo(Scalars, MaxListLen) }
    \cup { JObj(<<KV("k", v)>>) : v \in Scalars }
Level2 ==
    { JList(<<v>>) : v \in Level1 } \cup { JObj(<<KV("n", v)>>) : v \in Level1 }
UnknownPayloads ==
    { JObj(<<KV("a", v)>>) : v \in Scalars \cup Level1 \cup Level2 }
    \cup { JObj(<<KV("a", JInt(1)), KV("b", v)>>) : v \in Scalars \cup Level1 }

Payloads ==
    ProbePayloads \cup TopLevelPayloads \cup GrafanaPayloads \cup PrometheusPayloads
    \cup KumaPayloads \cup SlackPayloads \cup UnknownPayloads

(***************************************************************************)
(* The pure functions applied to one payload                               *)
(***************************************************************************)
NoResult == [exc |-> "none", val |-> <<>>]
Wrap(r) == IF IsOk(r) THEN Ok(<<r.val>>) ELSE r

BotIdle ==
    /\ raw_mode = FALSE
    /\ requests = <<>>
    /\ toggles = 0
    /\ last_reply = ""

InitPure ==
    /\ BotIdle
    /\ payload \in Payloads
    /\ called = "none"
    /\ raw_arg = FALSE
    /\ result = NoResult

Call(fn, raw, r) ==
    /\ called' = fn
    /\ raw_arg' = raw
    /\ result' = r
    /\ UNCHANGED <<raw_mode, requests, toggles, last_reply, payload>>

CallGetAlertType == Call("get_alert_type", FALSE, Wrap(get_alert_type(payload)))
CallGetAlertMessages == \E raw \in BOOLEAN : Call("get_alert_messages", raw, get_alert_messages(payload, raw))
CallDictToMarkdown == Call("dict_to_markdown", FALSE, Wrap(dict_to_markdown(payload)))
CallGrafana == Call("grafana_alert_to_markdown", FALSE, grafana_alert_to_markdown(payload))
CallPrometheus == Call("prometheus_alert_to_markdown", FALSE, prometheus_alert_to_markdown(payload))

NextPure ==
    \/ CallGetAlertType
    \/ CallGetAlertMessages
    \/ CallDictToMarkdown
    \/ CallGrafana
    \/ CallPrometheus

SpecPure == InitPure /\ [][NextPure]_vars

(***************************************************************************)
(* AlertBot: the webhook handler, the delivery loop and the commands       *)
(***************************************************************************)
MaxRequests == 2   \* webhook requests, handled concurrently
MaxToggles == 2    \* runs of the raw command

helpstring ==
    "# Alertbot\n\nTo control the alertbot you can use the following commands:\n"
    \o "* ^!help^: To show this help\n"
    \o "* ^!ping^: To check if the bot is alive\n"
    \o "* ^!raw^: To toggle raw mode (where webhook data is not parsed but simply forwarded as copyable text)\n"
    \o "* ^!roomid^: To let the bot show you the current matrix room id\n"
    \o "* ^!url^: To let the bot show you the webhook url\n\n"
    \o "More information is on [Github](https://github.com/moan0s/alertbot)\n"

\* the room_id segment of the request path, the room of a command's event, and
\* the plugin's webapp_url
RoomPaths == {"!ops:hs", " !dev:hs "}
EventRooms == {"!ops:hs"}
webapp_url == "https://bot/_matrix/maubot/plugin/alertbot"

\* request bodies: the text, as json.loads takes it
TwoAlerts ==
    JObj(<< KV("status", JStr("firing")),
            KV("alerts", JList(<< GrafanaAlert(1, [status |-> "firing", silence |-> TRUE, times |-> TRUE]),
                                  GrafanaAlert(2, [status |-> "resolved", silence |-> FALSE, times |-> TRUE]) >>)) >>)
Bodies ==
    { [json |-> TRUE, content |-> TwoAlerts],
      [json |-> TRUE, content |-> JObj(<<KV("alerts", JList(<<>>))>>)],
      [json |-> FALSE, content |-> JNull] }
json_loads(text) == IF text.json THEN Ok(text.content) ELSE Raise("JSONDecodeError")

\* what the awaited client.send_markdown does: returns, raises MForbidden, or
\* raises another error
Outcomes == {"sent", "MForbidden", "error"}

NewRequest ==
    [pc |-> "new", path |-> "", room_id |-> "", body |-> [json |-> FALSE, content |-> JNull],
     messages |-> <<>>, mode |-> FALSE, sent |-> <<>>, outcomes |-> <<>>, response |-> "none"]

Init ==
    /\ raw_mode = FALSE
    /\ requests = [r \in 1..MaxRequests |-> NewRequest]
    /\ toggles = 0
    /\ last_reply = ""
    /\ payload = JNull
    /\ called = "none"
    /\ raw_arg = FALSE
    /\ result = NoResult

BotOnly == UNCHANGED <<payload, called, raw_arg, result>>

\* the handler returns (or an error leaves it): the response of the request
Respond(req, response) == [req EXCEPT !.pc = "done", !.response = response]

\* a loop that calls send_markdown with the last message each time
DeliverLast(req) ==
    [req EXCEPT !.pc = "send",
                !.sent = Append(@, [room |-> req.room_id,
                                    message |-> req.messages[Len(req.messages)]])]

\* the loop calls send_markdown(room, message) for the next message and awaits it
Deliver(req) ==
    [req EXCEPT !.pc = "send",
                !.sent = Append(@, [room |-> req.room_id,
                                    message |-> req.messages[Len(req.sent) + 1]])]

\* the for loop of send_alert at its head: the next message, or the end of the loop
\* and the return of webhook_room
Loop(req) == IF Len(req.sent) < Len(req.messages) THEN Deliver(req) ELSE Respond(req, "ok")

\* a handler that swallows MForbidden inside the loop
AfterDeliverySwallowing(req, outcome) ==
    LET seen == [req EXCEPT !.outcomes = Append(@, outcome)]
    IN  CASE outcome \in {"sent", "MForbidden"} -> Loop(seen)
          [] OTHER -> Respond(seen, "error")

\* send_markdown's await ends: the loop goes on, or the exception leaves send_alert
\* and webhook_room, which catches MForbidden alone
AfterDelivery(req, outcome) ==
    LET seen == [req EXCEPT !.outcomes = Append(@, outcome)]
    IN  CASE outcome = "sent" -> Loop(seen)
          [] outcome = "MForbidden" -> Respond(seen, "forbidden")
          [] OTHER -> Respond(seen, "error")

\* the for loop of send_alert starts over the messages that get_alert_messages
\* returned; an exception of json.loads or get_alert_messages leaves the handler
Started(req, raw, messages) ==
    IF IsOk(messages)
    THEN Loop([req EXCEPT !.messages = messages.val, !.mode = raw])
    ELSE Respond(req, "error")

\* send_alert from the end of await req.text() to its first await
Rendered(req, raw) ==
    LET content == json_loads(req.body)
    IN  Started(req, raw, IF IsOk(content) THEN get_alert_messages(content.val, raw) ELSE content)

\* POST /webhook/{room_id}: webhook_room up to await req.text()
webhook_room(r) ==
    /\ requests[r].pc = "new"
    /\ \A q \in 1..(r - 1) : requests[q].pc # "new"
    /\ \E path \in RoomPaths, body \in Bodies :
          requests' = [requests EXCEPT ![r] =
                          [@ EXCEPT !.pc = "text", !.path = path, !.room_id = Strip(path),
                                    !.body = body]]
    /\ UNCHANGED <<raw_mode, toggles, last_reply>>
    /\ BotOnly

send_alert(r) ==
    /\ requests[r].pc = "text"
    /\ requests' = [requests EXCEPT ![r] = Rendered(@, raw_mode)]
    /\ UNCHANGED <<raw_mode, toggles, last_reply>>
    /\ BotOnly

send_markdown(r) ==
    /\ requests[r].pc = "send"
    /\ \E outcome \in Outcomes :
          requests' = [requests EXCEPT ![r] = AfterDelivery(@, outcome)]
    /\ UNCHANGED <<raw_mode, toggles, last_reply>>
    /\ BotOnly

Reply(text) ==
    /\ last_reply' = text
    /\ UNCHANGED requests
    /\ BotOnly

ping == Reply("pong") /\ UNCHANGED <<raw_mode, toggles>>
roomid == \E room \in EventRooms : Reply("^" \o room \o "^") /\ UNCHANGED <<raw_mode, toggles>>
url ==
    \E room \in EventRooms :
        Reply("^" \o webapp_url \o "/webhook/" \o room \o "^") /\ UNCHANGED <<raw_mode, toggles>>
help == Reply(helpstring) /\ UNCHANGED <<raw_mode, toggles>>

ModeName(mode) == IF mode THEN "raw" ELSE "normal"
\* a command that switches raw mode on instead of toggling it
ToggledOn(mode) == TRUE
Toggled(mode) == ~mode
raw ==
    /\ toggles < MaxToggles
    /\ raw_mode' = Toggled(raw_mode)
    /\ toggles' = toggles + 1
    /\ Reply("Mode is now: ^" \o ModeName(raw_mode') \o " mode^")

Next ==
    \/ \E r \in 1..MaxRequests : webhook_room(r)
    \/ \E r \in 1..MaxRequests : send_alert(r)
    \/ \E r \in 1..MaxRequests : send_markdown(r)
    \/ ping
    \/ roomid
    \/ url
    \/ help
    \/ raw

Spec == Init /\ [][Next]_vars

(***************************************************************************)
(* Properties of the pure functions (checked under SpecPure)               *)
(***************************************************************************)
AlertTypes ==
    {"slack-webhook", "grafana-alert", "grafana-resolved", "prometheus-alert",
     "prometheus-resolved", "uptime-kuma-alert", "uptime-kuma-resolved", "not-found"}

TypeIs(data, alert_type) ==
    IsOk(get_alert_type(data)) /\ get_alert_type(data).val = alert_type

\* the entries of data's alerts array
AlertsOf(data) == IterItems(GetKey(data, "alerts")).val
HasAlertsList(data) ==
    data.t = "obj" /\ HasKey(data, "alerts") /\ GetKey(data, "alerts").t = "list"
\* data with its alerts array replaced by the single alert
WithOnly(data, alert) ==
    JObj([i \in 1..Len(data.items) |->
            IF data.items[i].k = "alerts" THEN KV("alerts", JList(<<alert>>))
            ELSE data.items[i]])

HasPrefix(s, prefix) == Len(s) >= Len(prefix) /\ SubSeq(s, 1, Len(prefix)) = prefix

FiringLacksSilence(data) ==
    \E i \in 1..Len(AlertsOf(data)) :
        LET alert == AlertsOf(data)[i]
        IN  /\ alert.t = "obj"
            /\ HasKey(alert, "status")
            /\ EqStr(GetKey(alert, "status"), "firing")
            /\ ~HasKey(alert, "silenceURL")

\* C1: in normal mode, a payload classified grafana-alert in which a firing alert
\* lacks silenceURL makes get_alert_messages return one diagnostic message that
\* holds the payload dump, the classification and the error detail.
C1_DiagnosticMessage ==
    (/\ called = "get_alert_messages"
     /\ ~raw_arg
     /\ TypeIs(payload, "grafana-alert")
     /\ FiringLacksSilence(payload))
    => /\ IsOk(result)
       /\ Len(result.val) = 1
       /\ StrContains(result.val[1], PyStr(payload))
       /\ StrContains(result.val[1], "grafana-alert")
       /\ StrContains(result.val[1], "silenceURL")

\* C2: get_alert_type never fails: for a payload of any shape it returns one value
\* of the closed set of classifications.
C2_DetectorTotal ==
    called = "get_alert_type"
    => IsOk(result) /\ Len(result.val) = 1 /\ result.val[1] \in AlertTypes

\* C3: in raw mode get_alert_messages returns exactly one message, the code-fenced
\* string representation of the payload, for every payload, whatever the detector
\* would do with it.
C3_RawIndependent ==
    (called = "get_alert_messages" /\ raw_arg)
    => result = Ok(<<"**Data received**\n^^^\n" \o Strip(PyStr(payload)) \o "\n^^^">>)

\* field access that treats a missing or wrongly-shaped field as absent
OptKey(v, key) == IF v.t = "obj" /\ HasKey(v, key) THEN GetKey(v, key) ELSE Absent
OptFirst(v) == IF v.t = "list" /\ Len(v.items) > 0 THEN v.items[1].v ELSE Absent
OptLabel(data, label) == OptKey(OptKey(OptFirst(OptKey(data, "alerts")), "labels"), label)
Present(v) == v # Absent
FiringElse(data, firing, resolved) ==
    IF OptKey(data, "status") = JStr("firing") THEN firing ELSE resolved

\* the ordered rule list, first match wins
RuleList(data) ==
    CASE Present(OptKey(data, "text")) /\ Present(OptKey(data, "attachments")) ->
            "slack-webhook"
      [] OptKey(OptKey(data, "heartbeat"), "status") = JInt(0) -> "uptime-kuma-alert"
      [] OptKey(OptKey(data, "heartbeat"), "status") = JInt(1) -> "uptime-kuma-resolved"
      [] Present(OptLabel(data, "grafana_folder")) /\ Truthy(OptLabel(data, "grafana_folder")) ->
            FiringElse(data, "grafana-alert", "grafana-resolved")
      [] Present(OptLabel(data, "job")) /\ Truthy(OptLabel(data, "job")) ->
            FiringElse(data, "prometheus-alert", "prometheus-resolved")
      [] OTHER -> "not-found"

\* C4: get_alert_type equals the first-match-wins evaluation of the ordered rule
\* list (slack-webhook, uptime-kuma by heartbeat.status, grafana by grafana_folder,
\* prometheus by job, else not-found). Stated for the JSON objects on which
\* get_alert_type returns: the value it returns is the rule list's.
C4_FirstMatchWins ==
    (called = "get_alert_type" /\ payload.t = "obj" /\ IsOk(result))
    => result = Ok(<<RuleList(payload)>>)

\* every alert carries the fields that the renderer of its status reads
GrafanaComplete(alert) ==
    /\ alert.t = "obj"
    /\ HasKey(alert, "status") /\ GetKey(alert, "status").t = "str"
    /\ Present(OptKey(OptKey(alert, "labels"), "alertname"))
    /\ EqStr(GetKey(alert, "status"), "firing") => HasKey(alert, "silenceURL")
    /\ EqStr(GetKey(alert, "status"), "resolved") =>
          /\ OptKey(alert, "startsAt").s \in IsoTimes
          /\ OptKey(alert, "endsAt").s \in IsoTimes
PrometheusComplete(alert) ==
    /\ alert.t = "obj"
    /\ HasKey(alert, "status") /\ GetKey(alert, "status").t = "str"
    /\ Present(OptKey(OptKey(alert, "annotations"), "summary"))

\* C5: for a Grafana or Prometheus payload with N alerts, of any per-alert status,
\* the renderer returns exactly N messages and the i-th message is the one that
\* the i-th alert renders to on its own.
C5_OneMessagePerAlert ==
    /\ (/\ called = "grafana_alert_to_markdown"
        /\ TypeIs(payload, "grafana-alert") \/ TypeIs(payload, "grafana-resolved")
        /\ \A i \in 1..Len(AlertsOf(payload)) : GrafanaComplete(AlertsOf(payload)[i]))
       => /\ IsOk(result)
          /\ Len(result.val) = Len(AlertsOf(payload))
          /\ \A i \in 1..Len(AlertsOf(payload)) :
                grafana_alert_to_markdown(WithOnly(payload, AlertsOf(payload)[i]))
                    = Ok(<<result.val[i]>>)
    /\ (/\ called = "prometheus_alert_to_markdown"
        /\ TypeIs(payload, "prometheus-alert") \/ TypeIs(payload, "prometheus-resolved")
        /\ \A i \in 1..Len(AlertsOf(payload)) : PrometheusComplete(AlertsOf(payload)[i]))
       => /\ IsOk(result)
          /\ Len(result.val) = Len(AlertsOf(payload))
          /\ \A i \in 1..Len(AlertsOf(payload)) :
                prometheus_alert_to_markdown(WithOnly(payload, AlertsOf(payload)[i]))
                    = Ok(<<result.val[i]>>)

\* C6: for every payload classified not-found, dict_to_markdown returns a string
\* without raising, and get_alert_messages in normal mode returns exactly one
\* message that wraps that dump.
C6_FallbackTotal ==
    /\ (called = "dict_to_markdown" /\ TypeIs(payload, "not-found")) => IsOk(result)
    /\ (called = "get_alert_messages" /\ ~raw_arg /\ TypeIs(payload, "not-found"))
       => /\ IsOk(result)
          /\ Len(result.val) = 1
          /\ HasPrefix(result.val[1], "**Data received**\n ")

\* the header line that the title selection of the claim gives an alert
TitleOf(alert) ==
    LET annotations == OptKey(alert, "annotations")
    IN  IF Present(OptKey(annotations, "description"))
        THEN OptKey(annotations, "description")
        ELSE OptKey(annotations, "summary")
HeaderOf(alert) ==
    LET status == GetKey(alert, "status").s
    IN  "**" \o status \o "** "
        \o (IF status = "resolved" THEN "(green_heart)" ELSE "(fire)")
        \o ": " \o TitleOf(alert).s

\* C10: the title of a Prometheus alert's header line is annotations.description
\* when the annotations hold a description, and annotations.summary only when
\* they do not; an alert with a description and no summary still renders.
C10_DescriptionFirst ==
    (/\ called = "prometheus_alert_to_markdown"
     /\ TypeIs(payload, "prometheus-alert") \/ TypeIs(payload, "prometheus-resolved")
     /\ \A i \in 1..Len(AlertsOf(payload)) : Present(TitleOf(AlertsOf(payload)[i])))
    => /\ IsOk(result)
       /\ Len(result.val) = Len(AlertsOf(payload))
       /\ \A i \in 1..Len(AlertsOf(payload)) :
             HasPrefix(result.val[i], HeaderOf(AlertsOf(payload)[i]))

(***************************************************************************)
(* Properties of the AlertBot plugin (checked under Spec)                  *)
(***************************************************************************)
Requests == 1..MaxRequests
AllSent(req) == \A i \in 1..Len(req.outcomes) : req.outcomes[i] = "sent"

\* C7: a request whose rendered sequence is m1..mn calls the delivery collaborator
\* with m1, m2, ... in that order and with the room of the request path, whatever
\* other requests and commands run in between, and exactly n times when no
\* delivery call fails.
C7_DeliveryInOrder ==
    \A r \in Requests :
        LET req == requests[r]
        IN  /\ Len(req.sent) <= Len(req.messages)
            /\ \A i \in 1..Len(req.sent) :
                  req.sent[i] = [room |-> Strip(req.path), message |-> req.messages[i]]
            /\ (req.pc = "done" /\ req.messages # <<>> /\ AllSent(req)) =>
                  Len(req.sent) = Len(req.messages)

\* two requests are in flight at once, each with its second message out, one of
\* them to the room of a path with blanks around it, after a command has run
C7_Witness ==
    /\ requests[1].pc = "send" /\ Len(requests[1].sent) = 2
    /\ requests[2].pc = "send" /\ Len(requests[2].sent) = 2
    /\ requests[2].path = " !dev:hs " /\ requests[2].sent[2].room = "!dev:hs"
    /\ requests[2].sent[2].message = "**Resolved (party)**: A2"
    /\ last_reply = "pong"

C8_Responses ==
    \A r \in Requests :
        LET req == requests[r]
        IN  /\ \A k \in 1..Len(req.outcomes) :
                  req.outcomes[k] = "MForbidden" =>
                      /\ req.pc = "done" /\ req.response = "forbidden"
                      /\ k = Len(req.outcomes) /\ k = Len(req.sent)
            /\ req.response = "forbidden" =>
                  \E k \in 1..Len(req.outcomes) : req.outcomes[k] = "MForbidden"
            /\ req.response = "ok" =>
                  /\ AllSent(req)
                  /\ Len(req.outcomes) = Len(req.messages)
                  /\ Len(req.sent) = Len(req.messages)
\* the step that ends a request with the forbidden response touches nothing else
C8_StillServing ==
    \A r \in Requests :
        (requests[r].response # "forbidden" /\ requests'[r].response = "forbidden")
        => /\ requests[r].pc = "send"
           /\ raw_mode' = raw_mode
           /\ \A q \in Requests \ {r} : requests'[q] = requests[q]
\* a request that has ended stays as it ended
C8_Final ==
    \A r \in Requests : requests[r].pc = "done" => requests'[r] = requests[r]

\* C8: when the delivery of the k-th message of a request reports forbidden, the
\* request ends with the forbidden response, the message is not sent again, the
\* messages after it are never sent and the other requests go on unaffected; a
\* request ends with the success response only after all its messages have been
\* sent.
C8_ForbiddenHandling == []C8_Responses /\ [][C8_StillServing /\ C8_Final]_vars

\* the first of two messages was refused and the second never sent, and the
\* request after it was served in full
C8_Witness ==
    /\ requests[1].response = "forbidden"
    /\ Len(requests[1].messages) = 2 /\ Len(requests[1].sent) = 1
    /\ requests[2].response = "ok" /\ Len(requests[2].sent) = 2

C9_Parity == raw_mode = (toggles % 2 = 1)
C9_OnlyToggle ==
    /\ raw_mode' # raw_mode => toggles' = toggles + 1
    /\ requests' # requests => raw_mode' = raw_mode
    /\ toggles' # toggles =>
          /\ raw_mode' = ~raw_mode
          /\ last_reply' = (IF raw_mode' THEN "Mode is now: ^raw mode^"
                            ELSE "Mode is now: ^normal mode^")
C9_RenderedInMode ==
    \A r \in Requests :
        LET content == requests[r].body.content
        IN  (/\ requests[r].pc = "text" /\ requests'[r].pc # "text"
             /\ requests[r].body.json
             /\ IsOk(get_alert_messages(content, raw_mode)))
            => /\ requests'[r].mode = raw_mode
               /\ requests'[r].messages = get_alert_messages(content, raw_mode).val

\* C9: the mode is normal at startup, only the toggle command changes it, each
\* toggle flips it (raw after k toggles iff k is odd) and replies with the mode
\* now in force, and a request is rendered in the mode in force when it renders.
C9_ModeFlag == []C9_Parity /\ [][C9_OnlyToggle /\ C9_RenderedInMode]_vars

\* after two toggles the mode is normal again; the first request was rendered raw
\* between them (one fenced message), the second in normal mode (two messages)
C9_Witness ==
    /\ toggles = 2 /\ ~raw_mode
    /\ requests[1].mode /\ Len(requests[1].messages) = 1
    /\ requests[2].pc = "done" /\ ~requests[2].mode /\ Len(requests[2].messages) = 2

====
